---- MODULE Spec2Model ----
(***************************************************************************)
(* Model of orchard/engine/fetch.py: locating the engine binary, and       *)
(* installing it under a cross-process file lock when it is missing.       *)
(*                                                                         *)
(* Each process is one invocation of the host application.  It has its own *)
(* environment (PIE_LOCAL_BUILD) and makes one call of a public function   *)
(* of the module: get_engine_path, download_engine, get_installed_version  *)
(* or check_for_updates.  The processes share the file system under ORCHARD_HOME: *)
(* the binary, version.txt and install.lock.  The manifest service and the *)
(* artifact storage are external: every request is answered with any       *)
(* well-shaped manifest / any archive, or fails.                           *)
(***************************************************************************)
EXTENDS Integers, Sequences, FiniteSets, TLC

\* Number of concurrent processes sharing ORCHARD_HOME.
NumProcs == 2

Procs == 1..NumProcs
NoProc == 0

None == "None"

----------------------------------------------------------------------------
(* Paths and environment *)

\* ORCHARD_HOME / "bin" / "proxy_inference_engine"
BinaryPath == "~/.orchard/bin/proxy_inference_engine"

\* Values of os.environ.get("PIE_LOCAL_BUILD"): unset, empty, a build
\* directory holding bin/proxy_inference_engine, one that does not.
EnvValues == {None, "", "/build/ok", "/build/missing"}

\* Path(local_build) / "bin" / "proxy_inference_engine"
LocalPath(local_build) ==
  CASE local_build = "/build/ok" -> "/build/ok/bin/proxy_inference_engine"
    [] local_build = "/build/missing" -> "/build/missing/bin/proxy_inference_engine"
    [] OTHER -> "bin/proxy_inference_engine"

\* local_path.exists(): the build directories are outside ORCHARD_HOME and
\* are not changed by this module.
LocalPathExists(local_build) == local_build = "/build/ok"

\* Python truthiness of the value read from the environment.
Truthy(s) == s # None /\ s # ""

----------------------------------------------------------------------------
(* The manifest service and the artifact storage *)

\* Version ids are opaque strings, the keys of manifest["versions"]: two
\* plain ids, an id with surrounding whitespace, and the empty id.
VersionIds == {"1.2.0", "1.3.0", "1.3.0 ", ""}

\* str.strip() on the text of version.txt
Strip(s) == IF s = "1.3.0 " THEN "1.3.0" ELSE s

\* Archives the artifact storage may serve.
\*   good      : contains bin/proxy_inference_engine with the exec bit
\*   noexec    : contains it without the exec bit
\*   nobin     : a valid archive without bin/proxy_inference_engine
\*   truncated : the stream ends in the middle of the binary member
Archives == {"good", "noexec", "nobin", "truncated"}

HasBinary(a) == a # "nobin"
ModeExec(a) == a = "good"
Readable(a) == a # "truncated"

\* hashlib.sha256(content).hexdigest(): lowercase hex, one digest per content.
Sha256Hex(a) ==
  CASE a = "good" -> "a1"
    [] a = "noexec" -> "b2"
    [] a = "nobin" -> "c3"
    [] a = "truncated" -> "d4"

\* sha256 fields a manifest may carry: empty, the digest of the good
\* archive, the same digest in upper case.
ShaValues == {"", "a1", "A1"}

UrlOf(v) == <<"https://x", v>>

\* { "latest": ..., "versions": { version: { "url":..., "sha256":... } } }
Manifests ==
  { [latest |-> l,
     versions |-> [v \in ks |-> [url |-> UrlOf(v), sha256 |-> h]]] :
       l \in VersionIds, ks \in {{"1.2.0"}, VersionIds}, h \in ShaValues }

NoManifest == [latest |-> None, versions |-> <<>>]

----------------------------------------------------------------------------
(* State *)

VARIABLES
  env,          \* env[p]: PIE_LOCAL_BUILD in the environment of the caller p
  pc,           \* pc[p]: where p is in its call
  op,           \* op[p]: the public function p called
  lock,         \* holder of ORCHARD_HOME/install.lock, or NoProc
  homeDir,      \* ORCHARD_HOME exists
  binary,       \* the file at BinaryPath: "absent", "partial", "complete"
  binExec,      \* its executable permission bit
  writers,      \* processes with the binary open for writing (extractall)
  overlap,      \* two extractions wrote the binary at once since it was whole
  versionFile,  \* content of version.txt, or None if absent
  version,      \* version[p]: local `version` of download_engine
  manifest,     \* manifest[p]: local `manifest`
  expected,     \* expected[p]: local `expected_sha256`
  content,      \* content[p]: local `content`
  installed,    \* installed[p]: local `installed` of check_for_updates
  result,       \* result[p]: how the call ended
  steps,        \* steps[p]: the steps the call performed, in order
  installs      \* the processes whose download_engine ran to its end

vars == <<env, pc, op, lock, homeDir, binary, binExec, writers, overlap,
          versionFile, version, manifest, expected, content, installed,
          result, steps, installs>>

fsVars == <<homeDir, binary, binExec, writers, overlap, versionFile>>
localVars == <<version, manifest, expected, content, installed>>

NoResult == [kind |-> "none", value |-> None, mode |-> None,
             exists |-> FALSE, whole |-> FALSE, exec |-> FALSE]

\* binary_path.exists()
BinaryExists == binary # "absent"

Init ==
  /\ env = [p \in Procs |-> None]
  /\ pc = [p \in Procs |-> "idle"]
  /\ op = [p \in Procs |-> None]
  /\ lock = NoProc
  /\ homeDir = FALSE
  /\ binary = "absent"
  /\ binExec = FALSE
  /\ writers = {}
  /\ overlap = FALSE
  /\ versionFile = None
  /\ version = [p \in Procs |-> None]
  /\ manifest = [p \in Procs |-> NoManifest]
  /\ expected = [p \in Procs |-> ""]
  /\ content = [p \in Procs |-> None]
  /\ installed = [p \in Procs |-> None]
  /\ result = [p \in Procs |-> NoResult]
  /\ steps = [p \in Procs |-> <<>>]
  /\ installs = {}

----------------------------------------------------------------------------
(* Leaving a call *)

\* Mutant of WithExit: the block is left without releasing the lock.
WithExitLeak(l, p) == l

\* FileLock.__exit__: the with statement releases the lock when its block is
\* left, by falling off its end, by return or by an exception.
WithExit(l, p) == IF l = p THEN NoProc ELSE l

Returned(value) ==
  [kind |-> "return", value |-> value, mode |-> None,
   exists |-> BinaryExists, whole |-> binary = "complete", exec |-> binExec]

Raised(exc, mode) ==
  [kind |-> "raise", value |-> exc, mode |-> mode,
   exists |-> BinaryExists, whole |-> binary = "complete", exec |-> binExec]

\* The call of p ends with res (a return or an exception that propagates to
\* the caller), after the steps done; a with block it is in is left.
Leave(p, res, done) ==
  /\ pc' = [pc EXCEPT ![p] = "done"]
  /\ result' = [result EXCEPT ![p] = res]
  /\ lock' = WithExit(lock, p)
  /\ steps' = [steps EXCEPT ![p] = IF lock = p THEN Append(done, "unlock") ELSE done]
  /\ version' = [version EXCEPT ![p] = None]
  /\ manifest' = [manifest EXCEPT ![p] = NoManifest]
  /\ expected' = [expected EXCEPT ![p] = ""]
  /\ content' = [content EXCEPT ![p] = None]
  /\ installed' = [installed EXCEPT ![p] = None]

Goto(p, loc) == pc' = [pc EXCEPT ![p] = loc]

----------------------------------------------------------------------------
(* get_engine_path *)

\* The host application, started with PIE_LOCAL_BUILD = e, calls it.
CallGetEnginePath(p, e) ==
  /\ pc[p] = "idle"
  /\ op' = [op EXCEPT ![p] = "get_engine_path"]
  /\ env' = [env EXCEPT ![p] = e]
  /\ Goto(p, "gep_override")
  /\ UNCHANGED <<lock, fsVars, localVars, result, steps, installs>>

\* Mutant of GepOverride: a missing override binary falls back to the
\* managed path.
GepOverrideFallback(p) ==
  /\ pc[p] = "gep_override"
  /\ IF Truthy(env[p]) /\ LocalPathExists(env[p])
       THEN Leave(p, Returned(LocalPath(env[p])), steps[p])
       ELSE /\ Goto(p, "gep_fast")
            /\ UNCHANGED <<lock, localVars, result, steps>>
  /\ UNCHANGED <<env, op, fsVars, installs>>

\* Check for local dev override first (always wins)
GepOverride(p) ==
  /\ pc[p] = "gep_override"
  /\ IF Truthy(env[p])
       THEN IF LocalPathExists(env[p])
              THEN Leave(p, Returned(LocalPath(env[p])), steps[p])
              ELSE Leave(p, Raised("FileNotFoundError", "configuration"), steps[p])
       ELSE /\ Goto(p, "gep_fast")
            /\ UNCHANGED <<lock, localVars, result, steps>>
  /\ UNCHANGED <<env, op, fsVars, installs>>

\* Mutant of GepFastPath: no fast path, the lock is always taken.
GepNoFastPath(p) ==
  /\ pc[p] = "gep_fast"
  /\ Goto(p, "gep_mkdir")
  /\ UNCHANGED <<lock, localVars, result, steps>>
  /\ UNCHANGED <<env, op, fsVars, installs>>

\* Fast path: already installed
GepFastPath(p) ==
  /\ pc[p] = "gep_fast"
  /\ IF BinaryExists
       THEN Leave(p, Returned(BinaryPath), steps[p])
       ELSE /\ Goto(p, "gep_mkdir")
            /\ UNCHANGED <<lock, localVars, result, steps>>
  /\ UNCHANGED <<env, op, fsVars, installs>>

\* ORCHARD_HOME.mkdir(parents=True, exist_ok=True)
GepMkdir(p) ==
  /\ pc[p] = "gep_mkdir"
  /\ homeDir' = TRUE
  /\ Goto(p, "gep_acquire")
  /\ UNCHANGED <<env, op, lock, binary, binExec, writers, overlap, versionFile,
                 localVars, result, steps, installs>>

\* with FileLock(str(lock_path), timeout=300): the lock is free and p takes it
GepAcquire(p) ==
  /\ pc[p] = "gep_acquire"
  /\ lock = NoProc
  /\ lock' = p
  /\ steps' = [steps EXCEPT ![p] = Append(@, "lock")]
  /\ Goto(p, "gep_recheck")
  /\ UNCHANGED <<env, op, fsVars, localVars, result, installs>>

\* Mutant of GepLockTimeout: the wait for the lock has no timeout.
GepLockNoTimeout(p) ==
  /\ pc[p] = "gep_acquire"
  /\ FALSE
  /\ UNCHANGED vars

\* Mutant of GepLockTimeout: after the wait the lock is taken over.
GepLockBreak(p) ==
  /\ pc[p] = "gep_acquire"
  /\ lock # NoProc
  /\ lock # p
  /\ lock' = p
  /\ steps' = [steps EXCEPT ![p] = Append(@, "lock")]
  /\ Goto(p, "gep_recheck")
  /\ UNCHANGED <<env, op, fsVars, localVars, result, installs>>

\* ... or another process holds it for the whole wait: filelock.Timeout
GepLockTimeout(p) ==
  /\ pc[p] = "gep_acquire"
  /\ lock # NoProc
  /\ lock # p
  /\ Leave(p, Raised("Timeout", "lock_timeout"), steps[p])
  /\ UNCHANGED <<env, op, fsVars, installs>>

\* Mutant of GepRecheck: no second check under the lock.
GepNoRecheck(p) ==
  /\ pc[p] = "gep_recheck"
  /\ Goto(p, "dl_manifest")
  /\ UNCHANGED <<lock, localVars, result, steps>>
  /\ UNCHANGED <<env, op, fsVars, installs>>

\* Double-check: another process may have installed while we waited
GepRecheck(p) ==
  /\ pc[p] = "gep_recheck"
  /\ IF BinaryExists
       THEN Leave(p, Returned(BinaryPath), steps[p])
       ELSE /\ Goto(p, "dl_manifest")
            /\ UNCHANGED <<lock, localVars, result, steps>>
  /\ UNCHANGED <<env, op, fsVars, installs>>

\* download_engine() returned: the with block ends
GepExit(p) ==
  /\ pc[p] = "gep_exit"
  /\ lock' = WithExit(lock, p)
  /\ steps' = [steps EXCEPT ![p] = Append(@, "unlock")]
  /\ Goto(p, "gep_postcheck")
  /\ UNCHANGED <<env, op, fsVars, localVars, result, installs>>

\* if not binary_path.exists(): raise RuntimeError(...); return binary_path
GepPostCheck(p) ==
  /\ pc[p] = "gep_postcheck"
  /\ IF BinaryExists
       THEN Leave(p, Returned(BinaryPath), steps[p])
       ELSE Leave(p, Raised("RuntimeError", "install_incomplete"), steps[p])
  /\ UNCHANGED <<env, op, fsVars, installs>>

----------------------------------------------------------------------------
(* download_engine(channel, version) *)

\* A direct call; get_engine_path calls it with version = None.
CallDownloadEngine(p, v) ==
  /\ pc[p] = "idle"
  /\ op' = [op EXCEPT ![p] = "download_engine"]
  /\ version' = [version EXCEPT ![p] = v]
  /\ Goto(p, "dl_manifest")
  /\ UNCHANGED <<env, lock, fsVars, manifest, expected, content, installed, result, steps,
                 installs>>

\* 1. Fetch manifest: the service answers with manifest m
DlFetchManifest(p, m) ==
  /\ pc[p] = "dl_manifest"
  /\ manifest' = [manifest EXCEPT ![p] = m]
  /\ steps' = [steps EXCEPT ![p] = Append(@, "manifest")]
  /\ Goto(p, "dl_resolve")
  /\ UNCHANGED <<env, op, lock, fsVars, version, expected, content, installed, result,
                 installs>>

\* ... or resp.raise_for_status() raises
DlFetchManifestFail(p) ==
  /\ pc[p] = "dl_manifest"
  /\ Leave(p, Raised("HTTPError", "manifest"), Append(steps[p], "manifest"))
  /\ UNCHANGED <<env, op, fsVars, installs>>

\* Mutant of ResolveVersion: the requested version is ignored.
ResolveLatestOnly(v, m) == m.latest

\* if version is None: version = manifest["latest"]
ResolveVersion(v, m) == IF v = None THEN m.latest ELSE v

\* 2. Resolve version
DlResolve(p) ==
  /\ pc[p] = "dl_resolve"
  /\ LET v == ResolveVersion(version[p], manifest[p]) IN
       IF v \notin DOMAIN manifest[p].versions
         THEN Leave(p, Raised("ValueError", "version_not_found"),
                    Append(steps[p], "resolve"))
         ELSE /\ version' = [version EXCEPT ![p] = v]
              /\ expected' = [expected EXCEPT ![p] = manifest[p].versions[v].sha256]
              /\ manifest' = [manifest EXCEPT ![p] = NoManifest]
              /\ steps' = [steps EXCEPT ![p] = Append(@, "resolve")]
              /\ Goto(p, "dl_download")
              /\ UNCHANGED <<lock, content, installed, result>>
  /\ UNCHANGED <<env, op, fsVars, installs>>

\* Mutant of DlDownload: the content goes to extraction unverified.
DlDownloadNoVerify(p, a) ==
  /\ pc[p] = "dl_download"
  /\ content' = [content EXCEPT ![p] = a]
  /\ steps' = [steps EXCEPT ![p] = Append(@, "download")]
  /\ Goto(p, "dl_extract")
  /\ UNCHANGED <<env, op, lock, fsVars, version, manifest, expected, installed,
                 result, installs>>

\* Mutant of DlDownload: the response is streamed to the binary's path.
DlDownloadInPlace(p, a) ==
  /\ pc[p] = "dl_download"
  /\ content' = [content EXCEPT ![p] = a]
  /\ binary' = "partial"
  /\ steps' = [steps EXCEPT ![p] = Append(@, "download")]
  /\ Goto(p, "dl_verify")
  /\ UNCHANGED <<env, op, lock, homeDir, binExec, writers, overlap, versionFile,
                 version, manifest, expected, installed, result, installs>>

\* 3. Download: the storage answers with archive a
DlDownload(p, a) ==
  /\ pc[p] = "dl_download"
  /\ content' = [content EXCEPT ![p] = a]
  /\ steps' = [steps EXCEPT ![p] = Append(@, "download")]
  /\ Goto(p, "dl_verify")
  /\ UNCHANGED <<env, op, lock, fsVars, version, manifest, expected, installed, result,
                 installs>>

\* Mutant of DlDownloadFail: a failed request is tried again.
DlDownloadRetry(p) ==
  /\ pc[p] = "dl_download"
  /\ steps' = [steps EXCEPT ![p] = Append(@, "download")]
  /\ UNCHANGED <<env, pc, op, lock, fsVars, localVars, result, installs>>

\* ... or resp.raise_for_status() raises
DlDownloadFail(p) ==
  /\ pc[p] = "dl_download"
  /\ Leave(p, Raised("HTTPError", "download"), Append(steps[p], "download"))
  /\ UNCHANGED <<env, op, fsVars, installs>>

\* expected_sha256 and actual_sha256 != expected_sha256
ShaMismatch(expected_sha256, actual_sha256) ==
  expected_sha256 # "" /\ actual_sha256 # expected_sha256

\* 4. Verify SHA256
DlVerify(p) ==
  /\ pc[p] = "dl_verify"
  /\ IF ShaMismatch(expected[p], Sha256Hex(content[p]))
       THEN Leave(p, Raised("RuntimeError", "integrity"), Append(steps[p], "verify"))
       ELSE /\ expected' = [expected EXCEPT ![p] = ""]
            /\ steps' = [steps EXCEPT ![p] = Append(@, "verify")]
            /\ Goto(p, "dl_extract")
            /\ UNCHANGED <<lock, version, manifest, content, installed, result>>
  /\ UNCHANGED <<env, op, fsVars, installs>>

\* 5. Extract to ~/.orchard/: mkdir, and extractall opens the binary for
\* writing (creating or truncating it) when the archive has that member.
DlExtractBegin(p) ==
  /\ pc[p] = "dl_extract"
  /\ homeDir' = TRUE
  /\ IF HasBinary(content[p])
       THEN /\ binary' = "partial"
            /\ binExec' = IF binary = "absent" THEN FALSE ELSE binExec
            /\ writers' = writers \cup {p}
            /\ overlap' = (overlap \/ writers # {})
       ELSE UNCHANGED <<binary, binExec, writers, overlap>>
  /\ steps' = [steps EXCEPT ![p] = Append(@, "extract")]
  /\ Goto(p, "dl_extracting")
  /\ UNCHANGED <<env, op, lock, versionFile, localVars, result, installs>>

\* What the file holds once p has written its last byte of it: unfinished
\* while another extraction still writes it, either whole or garbled after
\* two extractions wrote it at once.
AfterWrite(ws, garbled) ==
  IF ws # {} THEN {"partial"}
  ELSE IF garbled THEN {"partial", "complete"}
  ELSE {"complete"}

\* extractall runs to its end (the member's mode bits are applied), or the
\* archive cannot be read to its end and tarfile raises.
DlExtractEnd(p) ==
  /\ pc[p] = "dl_extracting"
  /\ IF ~HasBinary(content[p])
       THEN /\ content' = [content EXCEPT ![p] = None]
            /\ Goto(p, "dl_chmod")
            /\ UNCHANGED <<binary, binExec, writers, overlap, lock, version,
                           manifest, expected, installed, result, steps>>
       ELSE /\ writers' = writers \ {p}
            /\ overlap' = (overlap /\ writers' # {})
            /\ IF Readable(content[p])
                 THEN /\ \E b \in AfterWrite(writers', overlap) : binary' = b
                      /\ binExec' = ModeExec(content[p])
                      /\ content' = [content EXCEPT ![p] = None]
                      /\ Goto(p, "dl_chmod")
                      /\ UNCHANGED <<lock, version, manifest, expected, installed, result, steps>>
                 ELSE /\ UNCHANGED <<binary, binExec>>
                      /\ Leave(p, Raised("ReadError", "extract"), steps[p])
  /\ UNCHANGED <<env, op, homeDir, versionFile, installs>>

\* Mutant of DlChmod: a missing binary is ignored.
DlChmodIgnoreMissing(p) ==
  /\ pc[p] = "dl_chmod"
  /\ binExec' = (BinaryExists \/ binExec)
  /\ steps' = [steps EXCEPT ![p] = Append(@, "chmod")]
  /\ Goto(p, "dl_persist")
  /\ UNCHANGED <<lock, localVars, result>>
  /\ UNCHANGED <<env, op, homeDir, binary, writers, overlap, versionFile, installs>>

\* 6. Make binary executable: binary_path.chmod(0o755)
DlChmod(p) ==
  /\ pc[p] = "dl_chmod"
  /\ IF BinaryExists
       THEN /\ binExec' = TRUE
            /\ steps' = [steps EXCEPT ![p] = Append(@, "chmod")]
            /\ Goto(p, "dl_persist")
            /\ UNCHANGED <<lock, localVars, result>>
       ELSE /\ UNCHANGED binExec
            /\ Leave(p, Raised("FileNotFoundError", "chmod"), steps[p])
  /\ UNCHANGED <<env, op, homeDir, binary, writers, overlap, versionFile, installs>>

\* Mutant of VersionText: the version file is written empty.
VersionTextEmpty(v) == ""

\* version or ""
VersionText(v) == IF v = None THEN "" ELSE v

\* 7. Write version file; download_engine returns
DlPersist(p) ==
  /\ pc[p] = "dl_persist"
  /\ versionFile' = VersionText(version[p])
  /\ installs' = installs \cup {p}
  /\ IF op[p] = "get_engine_path"
       THEN /\ Goto(p, "gep_exit")
            /\ steps' = [steps EXCEPT ![p] = Append(@, "persist")]
            /\ version' = [version EXCEPT ![p] = None]
            /\ UNCHANGED <<lock, manifest, expected, content, installed, result>>
       ELSE Leave(p, Returned(None), Append(steps[p], "persist"))
  /\ UNCHANGED <<env, op, homeDir, binary, binExec, writers, overlap>>

----------------------------------------------------------------------------
(* get_installed_version, check_for_updates(channel) *)

\* version_file.read_text().strip() if version_file.exists() else None
InstalledVersion(vf) == IF vf # None THEN Strip(vf) ELSE None

CallGetInstalledVersion(p) ==
  /\ pc[p] = "idle"
  /\ op' = [op EXCEPT ![p] = "get_installed_version"]
  /\ Goto(p, "giv_read")
  /\ UNCHANGED <<env, lock, fsVars, localVars, result, steps, installs>>

GivRead(p) ==
  /\ pc[p] = "giv_read"
  /\ Leave(p, Returned(InstalledVersion(versionFile)), steps[p])
  /\ UNCHANGED <<env, op, fsVars, installs>>

CallCheckForUpdates(p) ==
  /\ pc[p] = "idle"
  /\ op' = [op EXCEPT ![p] = "check_for_updates"]
  /\ Goto(p, "cfu_installed")
  /\ UNCHANGED <<env, lock, fsVars, localVars, result, steps, installs>>

\* Mutant of CfuInstalled: no check that something is installed.
CfuNoBaseline(p) ==
  /\ pc[p] = "cfu_installed"
  /\ installed' = [installed EXCEPT ![p] = InstalledVersion(versionFile)]
  /\ Goto(p, "cfu_manifest")
  /\ UNCHANGED <<lock, version, manifest, expected, content, result, steps>>
  /\ UNCHANGED <<env, op, fsVars, installs>>

\* installed = get_installed_version(); if not installed: return None
CfuInstalled(p) ==
  /\ pc[p] = "cfu_installed"
  /\ IF Truthy(InstalledVersion(versionFile))
       THEN /\ installed' = [installed EXCEPT ![p] = InstalledVersion(versionFile)]
            /\ Goto(p, "cfu_manifest")
            /\ UNCHANGED <<lock, version, manifest, expected, content, result, steps>>
       ELSE Leave(p, Returned(None), steps[p])
  /\ UNCHANGED <<env, op, fsVars, installs>>

\* return latest if latest != installed else None
UpdateFor(latest, inst) == IF latest # inst THEN latest ELSE None

\* The manifest request is answered with m
CfuManifest(p, m) ==
  /\ pc[p] = "cfu_manifest"
  /\ manifest' = [manifest EXCEPT ![p] = m]
  /\ steps' = [steps EXCEPT ![p] = Append(@, "manifest")]
  /\ Goto(p, "cfu_compare")
  /\ UNCHANGED <<env, op, lock, fsVars, version, expected, content, installed,
                 result, installs>>

\* latest = manifest["latest"]; compare with installed
CfuCompare(p) ==
  /\ pc[p] = "cfu_compare"
  /\ Leave(p, Returned(UpdateFor(manifest[p].latest, installed[p])), steps[p])
  /\ UNCHANGED <<env, op, fsVars, installs>>

\* ... or resp.raise_for_status() raises
CfuManifestFail(p) ==
  /\ pc[p] = "cfu_manifest"
  /\ Leave(p, Raised("HTTPError", "manifest"), Append(steps[p], "manifest"))
  /\ UNCHANGED <<env, op, fsVars, installs>>

----------------------------------------------------------------------------

Next ==
  \E p \in Procs :
    \/ \E e \in EnvValues : CallGetEnginePath(p, e)
    \/ GepOverride(p)
    \/ GepFastPath(p)
    \/ GepMkdir(p)
    \/ GepAcquire(p)
    \/ GepLockTimeout(p)
    \/ GepRecheck(p)
    \/ GepExit(p)
    \/ GepPostCheck(p)
    \/ \E v \in VersionIds \cup {None} : CallDownloadEngine(p, v)
    \/ \E m \in Manifests : DlFetchManifest(p, m)
    \/ DlFetchManifestFail(p)
    \/ DlResolve(p)
    \/ \E a \in Archives : DlDownload(p, a)
    \/ DlDownloadFail(p)
    \/ DlVerify(p)
    \/ DlExtractBegin(p)
    \/ DlExtractEnd(p)
    \/ DlChmod(p)
    \/ DlPersist(p)
    \/ CallGetInstalledVersion(p)
    \/ GivRead(p)
    \/ CallCheckForUpdates(p)
    \/ CfuInstalled(p)
    \/ \E m \in Manifests : CfuManifest(p, m)
    \/ CfuManifestFail(p)
    \/ CfuCompare(p)

Spec == Init /\ [][Next]_vars

\* A step of the call p is in: the calls are synchronous, every request is
\* answered or fails, and the wait for the lock ends with the lock or with
\* the timeout.
ProcStep(p) ==
  \/ GepOverride(p)
  \/ GepFastPath(p)
  \/ GepMkdir(p)
  \/ GepAcquire(p)
  \/ GepLockTimeout(p)
  \/ GepRecheck(p)
  \/ GepExit(p)
  \/ GepPostCheck(p)
  \/ \E m \in Manifests : DlFetchManifest(p, m)
  \/ DlFetchManifestFail(p)
  \/ DlResolve(p)
  \/ \E a \in Archives : DlDownload(p, a)
  \/ DlDownloadFail(p)
  \/ DlVerify(p)
  \/ DlExtractBegin(p)
  \/ DlExtractEnd(p)
  \/ DlChmod(p)
  \/ DlPersist(p)
  \/ GivRead(p)
  \/ CfuInstalled(p)
  \/ \E m \in Manifests : CfuManifest(p, m)
  \/ CfuManifestFail(p)
  \/ CfuCompare(p)

\* Every process that is in a call keeps running.
FairSpec == Spec /\ \A p \in Procs : WF_vars(ProcStep(p))

TypeOK ==
  /\ lock \in Procs \cup {NoProc}
  /\ binary \in {"absent", "partial", "complete"}
  /\ binExec \in BOOLEAN
  /\ writers \subseteq Procs
  /\ versionFile \in VersionIds \cup {None, ""}

----------------------------------------------------------------------------
(* Vocabulary of the properties *)

InSeq(x, s) == \E i \in DOMAIN s : s[i] = x

Done(p) == pc[p] = "done"
ReturnedPath(p) == Done(p) /\ result[p].kind = "return"
Failed(p) == Done(p) /\ result[p].kind = "raise"

\* p called get_engine_path with no override in its environment
Managed(p) == op[p] = "get_engine_path" /\ ~Truthy(env[p])
Overridden(p) == op[p] = "get_engine_path" /\ Truthy(env[p])

\* p performed the manifest fetch, the artifact download and the extraction
Installed(p) ==
  InSeq("manifest", steps[p]) /\ InSeq("download", steps[p]) /\ InSeq("extract", steps[p])

\* p made a network request
Requested(p) == InSeq("manifest", steps[p]) \/ InSeq("download", steps[p])

\* p is inside the extract / chmod / write-version sequence
Writing(p) == pc[p] \in {"dl_extracting", "dl_chmod", "dl_persist"}

\* a step of p out of location loc
StepFrom(p, loc) == pc[p] = loc /\ pc'[p] # loc

----------------------------------------------------------------------------
(* C1 *)

\* C1: when every process called get_engine_path without an override on the
\* empty install root and every call returned (no step failed), exactly one
\* of them fetched the manifest, downloaded and extracted; all returned the
\* canonical path; the binary is whole and executable.
C1_ExactlyOneInstalls ==
  (\A p \in Procs : Managed(p) /\ ReturnedPath(p)) =>
     /\ Cardinality({p \in Procs : Installed(p)}) = 1
     /\ Cardinality({p \in Procs : Requested(p)}) = 1
     /\ installs = {p \in Procs : Installed(p)}
     /\ \A p \in Procs : result[p].value = BinaryPath
     /\ binary = "complete"
     /\ binExec

\* Two calls raced past the fast path: both took the lock, and both returned.
C1_Witness ==
  /\ \A p \in Procs : Managed(p) /\ ReturnedPath(p)
  /\ \E p, q \in Procs : p # q /\ InSeq("lock", steps[p]) /\ InSeq("lock", steps[q])

----------------------------------------------------------------------------
(* C2 *)

\* C2: the binary exists at the canonical path iff an install has completed
\* (through extraction, chmod and the version write), and it is never there
\* partially written.  Stated for the runs in which every install is made
\* by get_engine_path, under the lock.
C2_BinaryIffInstalled ==
  (\A q \in Procs : op[q] # "download_engine") =>
     /\ BinaryExists <=> installs # {}
     /\ binary # "partial"

----------------------------------------------------------------------------
(* C3 *)

\* C3: a get_engine_path call that returns the canonical path returns it
\* when the binary exists there, whole and executable.  Stated for the runs
\* in which every install is made by get_engine_path, under the lock.
C3_ReturnedPathUsable ==
  (\A q \in Procs : op[q] # "download_engine") =>
     \A p \in Procs :
       (Managed(p) /\ ReturnedPath(p)) =>
          result[p].exists /\ result[p].whole /\ result[p].exec

----------------------------------------------------------------------------
(* C4 *)

\* C4: the lock is held only inside the with block of get_engine_path: a
\* process that has returned or failed, or has left the block for the final
\* check, does not hold it.
C4_LockReleased ==
  \A p \in Procs :
    /\ pc[p] \in {"idle", "gep_override", "gep_fast", "gep_mkdir", "gep_acquire",
                  "gep_postcheck", "done"} => lock # p
    /\ op[p] # "get_engine_path" => lock # p

\* An install step raised inside the with block, and the lock is free again.
C4_Witness ==
  \E p \in Procs :
    /\ Failed(p)
    /\ InSeq("lock", steps[p])
    /\ result[p].mode \in {"manifest", "version_not_found", "download",
                           "integrity", "extract", "chmod"}
    /\ lock = NoProc

----------------------------------------------------------------------------
(* C5 *)

\* C5: with no override and the binary present at the first check,
\* get_engine_path returns the canonical path at once: the lock, the binary,
\* the version file and the install root are unchanged and the call made no
\* request and took no lock.
C5_FastPathFrame ==
  [][\A p \in Procs :
       (StepFrom(p, "gep_fast") /\ BinaryExists) =>
          /\ pc'[p] = "done"
          /\ result'[p].kind = "return"
          /\ result'[p].value = BinaryPath
          /\ steps'[p] = <<>>
          /\ lock' = lock
          /\ UNCHANGED fsVars]_vars

\* A call returned on the fast path while the install lock was held.
C5_Witness ==
  \E p \in Procs :
    /\ Managed(p) /\ ReturnedPath(p)
    /\ steps[p] = <<>>
    /\ result[p].value = BinaryPath
    /\ lock # NoProc

----------------------------------------------------------------------------
(* C6 *)

\* C6: the second existence check is made holding the lock, and when it finds
\* the binary the call returns the canonical path having done nothing but
\* take and release the lock: no request, no extraction, no version write.
C6_RecheckUnderLock ==
  /\ [](\A p \in Procs : pc[p] = "gep_recheck" => lock = p)
  /\ [][\A p \in Procs :
          (StepFrom(p, "gep_recheck") /\ BinaryExists) =>
             /\ pc'[p] = "done"
             /\ result'[p].kind = "return"
             /\ result'[p].value = BinaryPath
             /\ steps'[p] = <<"lock", "unlock">>
             /\ lock' = NoProc
             /\ installs' = installs
             /\ UNCHANGED fsVars]_vars

\* A call missed the fast path, waited for the lock and found the binary
\* installed by another process.
C6_Witness ==
  \E p \in Procs :
    /\ Managed(p) /\ ReturnedPath(p)
    /\ steps[p] = <<"lock", "unlock">>
    /\ \E q \in Procs \ {p} : q \in installs /\ Managed(q)

----------------------------------------------------------------------------
(* C7 *)

\* C7: a process inside the extract / chmod / write-version sequence holds
\* the install lock, so no two processes are inside it at once.
C7_WritesUnderLock ==
  /\ \A p \in Procs : Writing(p) => lock = p
  /\ Cardinality({p \in Procs : Writing(p)}) <= 1

----------------------------------------------------------------------------
(* C8 *)

\* C8: with a non-empty override, get_engine_path ends at the override
\* check: it returns <override>/bin/<binary-name> if that exists and raises
\* the configuration error otherwise, never the managed path; it takes no
\* lock, makes no request and leaves the install root as it was.
C8_OverrideNoFallback ==
  /\ [](\A p \in Procs :
          Overridden(p) => /\ pc[p] \in {"gep_override", "done"}
                           /\ lock # p
                           /\ steps[p] = <<>>)
  /\ [][\A p \in Procs :
          (StepFrom(p, "gep_override") /\ Truthy(env[p])) =>
             /\ pc'[p] = "done"
             /\ IF LocalPathExists(env[p])
                  THEN /\ result'[p].kind = "return"
                       /\ result'[p].value = LocalPath(env[p])
                  ELSE /\ result'[p].kind = "raise"
                       /\ result'[p].mode = "configuration"
             /\ result'[p].value # BinaryPath
             /\ lock' = lock
             /\ UNCHANGED fsVars]_vars

\* The override binary was missing while the managed binary was installed:
\* the call failed all the same.
C8_Witness ==
  \E p \in Procs :
    /\ Overridden(p) /\ Failed(p)
    /\ result[p].mode = "configuration"
    /\ result[p].exists /\ result[p].whole

----------------------------------------------------------------------------
(* C9 *)

ListedModes == {"configuration", "lock_timeout", "manifest", "version_not_found",
                "download", "integrity", "install_incomplete"}

\* C9: two calls that failed in different listed failure modes raised
\* different kinds of error.
C9_DistinctErrorKinds ==
  \A p, q \in Procs :
    (/\ Failed(p) /\ Failed(q)
     /\ result[p].mode \in ListedModes /\ result[q].mode \in ListedModes
     /\ result[p].mode # result[q].mode)
       => result[p].value # result[q].value

----------------------------------------------------------------------------
(* C10 *)

\* C10: a get_engine_path call whose install steps ran through the
\* extraction and that failed with the binary missing at the canonical path
\* failed at the final check, after the lock was released, with that check's
\* error.
C10_InstallIncomplete ==
  \A p \in Procs :
    (/\ Managed(p) /\ Failed(p)
     /\ InSeq("extract", steps[p])
     /\ ~result[p].exists)
       => /\ result[p].mode = "install_incomplete"
          /\ result[p].value = "RuntimeError"
          /\ lock # p

----------------------------------------------------------------------------
(* C11 *)

\* C11: the version-resolution step resolves no requested version to
\* manifest.latest and a requested version to itself; if the resolved id is
\* a key of manifest.versions the call goes on to the download with that id
\* and that key's descriptor, otherwise it fails with the version-not-found
\* error, having downloaded nothing and written nothing.
C11_VersionResolution ==
  [][\A p \in Procs :
       StepFrom(p, "dl_resolve") =>
         LET m == manifest[p]
             v == IF version[p] = None THEN m.latest ELSE version[p]
         IN  IF v \in DOMAIN m.versions
               THEN /\ pc'[p] = "dl_download"
                    /\ version'[p] = v
                    /\ expected'[p] = m.versions[v].sha256
               ELSE /\ pc'[p] = "done"
                    /\ result'[p].kind = "raise"
                    /\ result'[p].value = "ValueError"
                    /\ result'[p].mode = "version_not_found"
                    /\ ~InSeq("download", steps'[p])
                    /\ ~InSeq("extract", steps'[p])
                    /\ installs' = installs
                    /\ UNCHANGED fsVars]_vars

\* get_engine_path met a manifest whose latest is not among its versions.
C11_Witness ==
  \E p \in Procs :
    /\ Managed(p) /\ Failed(p)
    /\ result[p].mode = "version_not_found"
    /\ ~result[p].exists
    /\ versionFile = None

----------------------------------------------------------------------------
(* C12 *)

\* str.lower() on the sha256 values
Lower(h) == IF h = "A1" THEN "a1" ELSE h

\* C12: the verification step passes exactly when the expected hash is
\* empty or equals the digest of the content up to letter case, and fails
\* with the integrity error otherwise.
C12_VerifyCaseInsensitive ==
  [][\A p \in Procs :
       StepFrom(p, "dl_verify") =>
         IF expected[p] = "" \/ Lower(expected[p]) = Lower(Sha256Hex(content[p]))
           THEN pc'[p] = "dl_extract"
           ELSE /\ pc'[p] = "done"
                /\ result'[p].kind = "raise"
                /\ result'[p].mode = "integrity"]_vars

----------------------------------------------------------------------------
(* C13 *)

\* version.txt still reads as it did when check_for_updates read it: no
\* install of another version completed since.
Fresh(p) == installed[p] = InstalledVersion(versionFile)

\* The id has no surrounding whitespace / is moreover not empty.
Trimmed(v) == Strip(v) = v
Plain(v) == v # "" /\ Trimmed(v)

----------------------------------------------------------------------------
(* C14 *)

\* C14: with version.txt absent, check_for_updates returns null at its first
\* step, having made no request and changed nothing; and it goes on to the
\* manifest, or reports an update, only when version.txt exists.
C14_NoBaselineNoUpdate ==
  /\ [](\A p \in Procs :
          /\ pc[p] \in {"cfu_manifest", "cfu_compare"} => versionFile # None
          /\ (op[p] = "check_for_updates" /\ ReturnedPath(p) /\ result[p].value # None)
                => InstalledVersion(versionFile) # None)
  /\ [][\A p \in Procs :
          (StepFrom(p, "cfu_installed") /\ versionFile = None) =>
             /\ pc'[p] = "done"
             /\ result'[p].kind = "return"
             /\ result'[p].value = None
             /\ steps'[p] = <<>>
             /\ lock' = lock
             /\ installs' = installs
             /\ UNCHANGED fsVars]_vars

\* check_for_updates returned null without a request while the first install
\* was under way: the binary was already there, version.txt not yet.
C14_Witness ==
  \E p \in Procs :
    /\ op[p] = "check_for_updates" /\ ReturnedPath(p)
    /\ result[p].value = None
    /\ steps[p] = <<>>
    /\ versionFile = None
    /\ result[p].exists

----------------------------------------------------------------------------
(* C15 *)

Count(x, s) == Cardinality({i \in DOMAIN s : s[i] = x})

\* C15: a call makes at most one manifest request and at most one artifact
\* request; when the manifest request or the artifact request fails, the
\* call ends there with that error raised to the caller, and has installed
\* nothing.
C15_NoRetry ==
  /\ [](\A p \in Procs :
          /\ Count("manifest", steps[p]) <= 1
          /\ Count("download", steps[p]) <= 1
          /\ (Failed(p) /\ result[p].mode \in {"manifest", "download"}) =>
                /\ p \notin installs
                /\ ~InSeq("verify", steps[p])
                /\ ~InSeq("extract", steps[p])
                /\ ~InSeq("persist", steps[p]))
  /\ [][\A p \in Procs :
          /\ StepFrom(p, "dl_manifest") =>
                \/ pc'[p] = "dl_resolve"
                \/ /\ pc'[p] = "done"
                   /\ result'[p].kind = "raise"
                   /\ result'[p].mode = "manifest"
          /\ StepFrom(p, "dl_download") =>
                \/ pc'[p] = "dl_verify"
                \/ /\ pc'[p] = "done"
                   /\ result'[p].kind = "raise"
                   /\ result'[p].mode = "download"]_vars

\* A get_engine_path call failed at the artifact request; the binary was
\* installed by another invocation.
C15_Witness ==
  \E p, q \in Procs :
    /\ Managed(p) /\ Failed(p)
    /\ result[p].mode = "download"
    /\ ~result[p].exists
    /\ Managed(q) /\ q \in installs

----------------------------------------------------------------------------
(* C16 *)

\* C16: a process waiting for the lock has created the install root; when
\* its wait expires, the lock being held by another process, it fails with
\* the lock-timeout error having made no request and written nothing, and
\* the lock, the files and the holder's call are as they were.
C16_LockTimeout ==
  /\ [](\A p \in Procs : pc[p] \in {"gep_acquire", "gep_recheck"} => homeDir)
  /\ [][\A p \in Procs :
          (StepFrom(p, "gep_acquire") /\ lock # NoProc) =>
             /\ pc'[p] = "done"
             /\ result'[p].kind = "raise"
             /\ result'[p].value = "Timeout"
             /\ result'[p].mode = "lock_timeout"
             /\ steps'[p] = <<>>
             /\ lock' = lock
             /\ installs' = installs
             /\ UNCHANGED fsVars
             /\ \A q \in Procs \ {p} :
                  /\ pc'[q] = pc[q]
                  /\ version'[q] = version[q]
                  /\ content'[q] = content[q]]_vars

\* A call timed out on the lock and the holder completed its install.
C16_Witness ==
  \E p, q \in Procs :
    /\ Managed(p) /\ Failed(p)
    /\ result[p].mode = "lock_timeout"
    /\ ~result[p].exists
    /\ Managed(q) /\ ReturnedPath(q) /\ q \in installs
    /\ binary = "complete"

----------------------------------------------------------------------------
(* C17 *)

InstallOrder ==
  <<"manifest", "resolve", "download", "verify", "extract", "chmod", "persist">>

IsLockStep(x) == x \in {"lock", "unlock"}
IsInstallStep(x) == ~IsLockStep(x)

\* the steps of p other than taking and releasing the lock
InstallSteps(p) == SelectSeq(steps[p], IsInstallStep)

IsPrefix(s, t) == Len(s) <= Len(t) /\ \A i \in 1..Len(s) : s[i] = t[i]

\* C17: the steps a call has performed are an initial part of the order
\* manifest, resolve, download, verify, extract, chmod, persist; a call that
\* failed went no further than the failing step (none extracted after a
\* failed verification); and version.txt exists only when some call
\* performed all seven.
C17_StepOrder ==
  /\ \A p \in Procs :
       /\ IsPrefix(InstallSteps(p), InstallOrder)
       /\ p \in installs <=> InstallSteps(p) = InstallOrder
       /\ Failed(p) => ~InSeq("persist", steps[p])
       /\ (Failed(p) /\ result[p].mode = "integrity") =>
             InstallSteps(p) = <<"manifest", "resolve", "download", "verify">>
  /\ versionFile # None => \E p \in Procs : InstallSteps(p) = InstallOrder

\* A get_engine_path call ran the whole install and returned.
C17_Witness ==
  \E p \in Procs :
    /\ Managed(p) /\ ReturnedPath(p)
    /\ steps[p] = <<"lock">> \o InstallOrder \o <<"unlock">>
    /\ versionFile # None

----------------------------------------------------------------------------
(* C18 *)

\* C18: version.txt is absent while no install has completed, is written
\* only by the last step of an install, with that install's resolved
\* version, and once present stays present; whenever it exists the binary
\* exists; get_installed_version returns a version only when an install has
\* completed, and then the (stripped) text that install wrote.
C18_VersionFileLifecycle ==
  /\ [](/\ installs = {} => versionFile = None
        /\ versionFile # None => BinaryExists
        /\ \A p \in Procs :
             (op[p] = "get_installed_version" /\ ReturnedPath(p)
                /\ result[p].value # None) => installs # {})
  /\ [][/\ versionFile # None => versionFile' # None
        /\ versionFile' # versionFile =>
              \E p \in Procs : StepFrom(p, "dl_persist") /\ versionFile' = version[p]
        /\ \A p \in Procs :
             /\ StepFrom(p, "dl_persist") =>
                   versionFile' = version[p] /\ installs' = installs \cup {p}
             /\ StepFrom(p, "giv_read") =>
                   result'[p].value = IF versionFile = None THEN None
                                      ELSE Strip(versionFile)]_vars

\* Two installs completed: the second overwrote the version file.
C18_Witness ==
  /\ \E p, q \in Procs : p # q /\ p \in installs /\ q \in installs
  /\ versionFile # None
  /\ BinaryExists

----------------------------------------------------------------------------
(* C19 *)

EarlySteps == {"dl_manifest", "dl_resolve", "dl_download", "dl_verify"}
EarlyModes == {"manifest", "version_not_found", "download", "integrity"}

\* C19: the manifest, resolve, download and verify steps change no file
\* under the install root; a call that ends at one of them ends with an
\* error and with the lock free of it; and a get_engine_path call that finds
\* no binary at its checks goes on to its own install attempt.
C19_EarlyFailureFrame ==
  [][\A p \in Procs :
       /\ (pc[p] \in EarlySteps /\ pc'[p] # pc[p]) =>
             /\ UNCHANGED fsVars
             /\ installs' = installs
             /\ pc'[p] = "done" =>
                   /\ result'[p].kind = "raise"
                   /\ result'[p].mode \in EarlyModes
                   /\ lock' # p
                   /\ lock = p => lock' = NoProc
             /\ pc'[p] # "done" => lock' = lock
       /\ (StepFrom(p, "gep_fast") /\ ~BinaryExists) => pc'[p] = "gep_mkdir"
       /\ (StepFrom(p, "gep_recheck") /\ ~BinaryExists) => pc'[p] = "dl_manifest"]_vars

\* An install under the lock failed before extraction with the binary
\* absent; the next caller got the lock and made its own manifest request.
C19_Witness ==
  \E p, q \in Procs :
    /\ p # q
    /\ Managed(p) /\ Failed(p)
    /\ result[p].mode \in EarlyModes
    /\ InSeq("lock", steps[p])
    /\ ~result[p].exists
    /\ Managed(q)
    /\ lock = q
    /\ InSeq("manifest", steps[q])
    /\ ~BinaryExists

----------------------------------------------------------------------------
(* C20 *)

Active(p) == pc[p] \notin {"idle", "done"}

\* C20: a process in a call can always take a step (a wait for the lock can
\* end with the lock or with the timeout, so no state is a deadlock), and
\* under fair scheduling every get_engine_path call ends, with a path
\* returned or an error raised.
C20_Termination ==
  /\ [](\A p \in Procs : Active(p) => ENABLED ProcStep(p))
  /\ \A p \in Procs :
       (op[p] = "get_engine_path" /\ Active(p)) ~>
          (Done(p) /\ result[p].kind \in {"return", "raise"})

\* Every process called get_engine_path with no override, all calls have
\* ended, and one of them ended with the lock timeout.
C20_Witness ==
  /\ \A p \in Procs : Managed(p) /\ Done(p)
  /\ \E p \in Procs : result[p].mode = "lock_timeout"

====
